---- MODULE Spec2Model ----
(***************************************************************************)
(* Model of scripts/generate-import.py and scripts/update-ranks.py: the    *)
(* domain normalisation and matching heuristic, the two record loaders and *)
(* the two SQL statement generators.                                       *)
(*                                                                         *)
(* A Python str is a sequence of one-character strings.  A csv row is a    *)
(* sequence of fields, a field is a str.  Python's None is the empty       *)
(* tuple <<>> and an int n held in an optional variable is <<n>>.  A dict  *)
(* is the sequence of its (key, value) pairs in iteration order.           *)
(***************************************************************************)
EXTENDS Integers, Sequences, FiniteSets, TLC

VARIABLES
    arg_feed,      \* feed_domain argument of the call under test
    arg_ranked,    \* ranked_domain argument of the call under test
    ret,           \* what the last call under test returned
    top100,        \* ../top100.csv: the data rows after the header row
    feedsCsv,      \* ../feeds.csv: the rows csv.DictReader yields
    gi_pc,         \* generate-import.py: where the script is
    gi_i,          \* generate-import.py: next row / feed of the running loop
    rankings,      \* generate-import.py: rankings
    feeds,         \* generate-import.py: feeds
    rank,          \* generate-import.py: main's loop variable rank
    matched,       \* generate-import.py: matched
    unmatched,     \* generate-import.py: unmatched
    gi_stdout,     \* generate-import.py: the lines printed so far
    ur_pc,         \* update-ranks.py: where the script is
    ur_i,          \* update-ranks.py: next row of the running loop
    ur_rankings,   \* update-ranks.py: rankings
    ur_matched,    \* update-ranks.py: matched
    ur_stdout      \* update-ranks.py: the lines printed so far

callVars == <<arg_feed, arg_ranked, ret>>
fileVars == <<top100, feedsCsv>>
giVars == <<gi_pc, gi_i, rankings, feeds, rank, matched, unmatched, gi_stdout>>
urVars == <<ur_pc, ur_i, ur_rankings, ur_matched, ur_stdout>>
vars == <<callVars, fileVars, giVars, urVars>>

----------------------------------------------------------------------------
(* Python str operations used by the scripts.                              *)

UpperLetters ==
    <<"A","B","C","D","E","F","G","H","I","J","K","L","M",
      "N","O","P","Q","R","S","T","U","V","W","X","Y","Z">>

LowerLetters ==
    <<"a","b","c","d","e","f","g","h","i","j","k","l","m",
      "n","o","p","q","r","s","t","u","v","w","x","y","z">>

Whitespace == {" ", "\t", "\n", "\r"}

Digits == <<"0","1","2","3","4","5","6","7","8","9">>

UpperSet == {UpperLetters[k] : k \in DOMAIN UpperLetters}

\* the lower-case letter of each upper-case letter
LowerOf ==
    [c \in UpperSet |->
        LowerLetters[CHOOSE k \in DOMAIN UpperLetters : UpperLetters[k] = c]]

lower_char(c) == IF c \in UpperSet THEN LowerOf[c] ELSE c

\* str.lower()
str_lower(s) == [k \in 1..Len(s) |-> lower_char(s[k])]

\* str.strip(): leading and trailing whitespace removed
str_strip(s) ==
    LET keep == {k \in 1..Len(s) : s[k] \notin Whitespace}
    IN  IF keep = {} THEN <<>>
        ELSE LET lo == CHOOSE k \in keep : \A j \in keep : k <= j
                 hi == CHOOSE k \in keep : \A j \in keep : k >= j
             IN  SubSeq(s, lo, hi)

\* str.startswith(prefix)
startswith(s, prefix) ==
    /\ Len(prefix) <= Len(s)
    /\ SubSeq(s, 1, Len(prefix)) = prefix

\* str.endswith(suffix)
endswith(s, suffix) ==
    /\ Len(suffix) <= Len(s)
    /\ SubSeq(s, Len(s) - Len(suffix) + 1, Len(s)) = suffix

\* c in s, for a one-character c
str_contains(s, c) == \E k \in 1..Len(s) : s[k] = c

\* s[n:]
str_from(s, n) == SubSeq(s, n + 1, Len(s))

\* s.split(c)[0]: s up to its first c, all of s when it has none
RECURSIVE split_first(_, _)
split_first(s, c) ==
    IF s = <<>> \/ Head(s) = c THEN <<>>
    ELSE <<Head(s)>> \o split_first(Tail(s), c)

\* s.replace("'", "''")
RECURSIVE replace_quote(_)
replace_quote(s) ==
    IF s = <<>> THEN <<>>
    ELSE (IF Head(s) = "'" THEN <<"'", "'">> ELSE <<Head(s)>>)
         \o replace_quote(Tail(s))

WwwPrefix == <<"w", "w", "w", ".">>

WwwLen == 4

----------------------------------------------------------------------------
(* scripts/generate-import.py: the domain matcher.                         *)

normalize_domain_nostrip(domain) ==
    LET d == str_lower(domain)
    IN  IF startswith(d, WwwPrefix) THEN str_from(d, WwwLen) ELSE d

normalize_domain(domain) ==
    LET d == str_strip(str_lower(domain))
    IN  IF startswith(d, WwwPrefix) THEN str_from(d, WwwLen) ELSE d

\* the path rule tested the wrong way round: base_domain under feed_domain
domains_match_base_under_feed(feed_domain, ranked_domain) ==
    LET f == normalize_domain(feed_domain)
        r == normalize_domain(ranked_domain)
    IN  IF f = r THEN TRUE
        ELSE IF endswith(f, <<".">> \o r) THEN TRUE
        ELSE IF endswith(r, <<".">> \o f) THEN TRUE
        ELSE IF str_contains(r, "/")
             THEN LET base_domain == split_first(r, "/")
                  IN  f = base_domain \/ endswith(base_domain, <<".">> \o f)
             ELSE FALSE

\* the path rule taking the base at the last "/" instead of the first
domains_match_rsplit(feed_domain, ranked_domain) ==
    LET f == normalize_domain(feed_domain)
        r == normalize_domain(ranked_domain)
    IN  IF f = r THEN TRUE
        ELSE IF endswith(f, <<".">> \o r) THEN TRUE
        ELSE IF endswith(r, <<".">> \o f) THEN TRUE
        ELSE IF str_contains(r, "/")
             THEN LET cut == CHOOSE k \in 1..Len(r) :
                                /\ r[k] = "/"
                                /\ \A j \in (k + 1)..Len(r) : r[j] # "/"
                      base_domain == SubSeq(r, 1, cut - 1)
                  IN  f = base_domain \/ endswith(f, <<".">> \o base_domain)
             ELSE FALSE

domains_match(feed_domain, ranked_domain) ==
    LET f == normalize_domain(feed_domain)
        r == normalize_domain(ranked_domain)
    IN  IF f = r THEN TRUE
        ELSE IF endswith(f, <<".">> \o r) THEN TRUE
        ELSE IF endswith(r, <<".">> \o f) THEN TRUE
        ELSE IF str_contains(r, "/")
             THEN LET base_domain == split_first(r, "/")
                  IN  f = base_domain \/ endswith(f, <<".">> \o base_domain)
             ELSE FALSE

----------------------------------------------------------------------------
(* scripts/update-ranks.py: its own copy of the domain matcher.            *)

ur_normalize_domain(domain) ==
    LET d == str_strip(str_lower(domain))
    IN  IF startswith(d, WwwPrefix) THEN str_from(d, WwwLen) ELSE d

ur_domains_match(feed_domain, ranked_domain) ==
    LET f == ur_normalize_domain(feed_domain)
        r == ur_normalize_domain(ranked_domain)
    IN  IF f = r THEN TRUE
        ELSE IF endswith(f, <<".">> \o r) THEN TRUE
        ELSE IF endswith(r, <<".">> \o f) THEN TRUE
        ELSE IF str_contains(r, "/")
             THEN LET base_domain == split_first(r, "/")
                  IN  f = base_domain \/ endswith(f, <<".">> \o base_domain)
             ELSE FALSE

Scripts == {"generate-import", "update-ranks"}

\* the script's normalize_domain
normalize_of(script, domain) ==
    IF script = "generate-import" THEN normalize_domain(domain)
    ELSE ur_normalize_domain(domain)

\* the script's domains_match
match_of(script, feed_domain, ranked_domain) ==
    IF script = "generate-import" THEN domains_match(feed_domain, ranked_domain)
    ELSE ur_domains_match(feed_domain, ranked_domain)

----------------------------------------------------------------------------
(* The matcher called on its own: SpecMatcher.                             *)

\* the pieces the argument strings are put together from
Parts == {<<"W", "w", "w", ".">>, <<" ">>, <<"a">>, <<".", "a">>, <<"/", "p">>}

MaxFeedParts == 3

MaxRankedParts == 2

RECURSIVE StringsOf(_)
StringsOf(n) ==
    IF n = 0 THEN {<<>>}
    ELSE LET shorter == StringsOf(n - 1)
         IN  shorter \cup {s \o p : s \in shorter, p \in Parts}

microsoft_com == <<"m","i","c","r","o","s","o","f","t",".","c","o","m">>

devblogs_microsoft_com ==
    <<"d","e","v","b","l","o","g","s",".">> \o microsoft_com

devblogs_oldnewthing ==
    devblogs_microsoft_com \o <<"/","o","l","d","n","e","w","t","h","i","n","g">>

example_com == <<"e","x","a","m","p","l","e",".","c","o","m">>

example_org == <<"e","x","a","m","p","l","e",".","o","r","g">>

\* the argument pairs the documentation names
Examples ==
    { <<microsoft_com, devblogs_oldnewthing>>,
      <<devblogs_microsoft_com, devblogs_oldnewthing>>,
      <<<<"b","l","o","g",".">> \o example_com, example_com>>,
      <<example_com, <<"b","l","o","g",".">> \o example_com>>,
      <<example_com, example_org>>,
      <<<<"W","W","W",".","E">> \o Tail(example_com), example_com>> }

NoCall == [op |-> "none", script |-> "none", val |-> <<>>]

FilesIdle ==
    /\ top100 = <<>>
    /\ feedsCsv = <<>>
    /\ gi_pc = "idle"
    /\ gi_i = 0
    /\ rankings = <<>>
    /\ feeds = <<>>
    /\ rank = <<>>
    /\ matched = 0
    /\ unmatched = 0
    /\ gi_stdout = <<>>
    /\ ur_pc = "idle"
    /\ ur_i = 0
    /\ ur_rankings = <<>>
    /\ ur_matched = 0
    /\ ur_stdout = <<>>

InitMatcher ==
    /\ \E pair \in (StringsOf(MaxFeedParts) \X StringsOf(MaxRankedParts))
                       \cup Examples :
          /\ arg_feed = pair[1]
          /\ arg_ranked = pair[2]
    /\ ret = NoCall
    /\ FilesIdle

\* normalize_domain(x), and normalize_domain of what it returned
CallNormalize(script) ==
    /\ ret = NoCall
    /\ LET once == normalize_of(script, arg_feed)
       IN  ret' = [op |-> "normalize_domain", script |-> script,
                   val |-> <<once, normalize_of(script, once)>>]
    /\ UNCHANGED <<arg_feed, arg_ranked, fileVars, giVars, urVars>>

\* domains_match(feed_domain, ranked_domain)
CallDomainsMatch(script) ==
    /\ ret = NoCall
    /\ ret' = [op |-> "domains_match", script |-> script,
               val |-> <<match_of(script, arg_feed, arg_ranked)>>]
    /\ UNCHANGED <<arg_feed, arg_ranked, fileVars, giVars, urVars>>

NextMatcher ==
    \/ \E script \in Scripts : CallNormalize(script)
    \/ \E script \in Scripts : CallDomainsMatch(script)

SpecMatcher == InitMatcher /\ [][NextMatcher]_vars

----------------------------------------------------------------------------
(* Library calls of the loaders and generators.                            *)

is_digit(c) == \E k \in DOMAIN Digits : Digits[k] = c

digit_value(c) == (CHOOSE k \in DOMAIN Digits : Digits[k] = c) - 1

\* the decimal digits of an int(...) argument: whitespace and one sign removed
int_digits(s) ==
    LET t == str_strip(s)
    IN  IF t # <<>> /\ t[1] \in {"+", "-"} THEN Tail(t) ELSE t

\* int(s) returns; otherwise it raises ValueError
int_accepts(s) ==
    /\ int_digits(s) # <<>>
    /\ \A k \in 1..Len(int_digits(s)) : is_digit(int_digits(s)[k])

RECURSIVE digits_value(_)
digits_value(ds) ==
    IF ds = <<>> THEN 0
    ELSE 10 * digits_value(SubSeq(ds, 1, Len(ds) - 1)) + digit_value(ds[Len(ds)])

\* int(s), for an s that int accepts
int_of(s) ==
    LET t == str_strip(s)
    IN  IF t[1] = "-" THEN 0 - digits_value(int_digits(s))
        ELSE digits_value(int_digits(s))

\* str(n) for an int n
RECURSIVE str_of_nat(_)
str_of_nat(n) ==
    IF n < 10 THEN <<Digits[n + 1]>>
    ELSE str_of_nat(n \div 10) \o <<Digits[(n % 10) + 1]>>

str_of_int(n) == IF n < 0 THEN <<"-">> \o str_of_nat(0 - n) ELSE str_of_nat(n)

SchemeChars ==
    {LowerLetters[k] : k \in DOMAIN LowerLetters}
        \cup {UpperLetters[k] : k \in DOMAIN UpperLetters}
        \cup {Digits[k] : k \in DOMAIN Digits} \cup {"+", "-", "."}

\* urlparse(url) takes a scheme off url: the text before its first ":" when
\* that text starts with a letter and holds scheme characters only
url_after_scheme(url) ==
    LET colons == {k \in 1..Len(url) : url[k] = ":"}
    IN  IF colons = {} THEN url
        ELSE LET i == CHOOSE k \in colons : \A j \in colons : k <= j
             IN  IF /\ i > 1
                    /\ lower_char(url[1]) \in
                           {LowerLetters[k] : k \in DOMAIN LowerLetters}
                    /\ \A j \in 1..(i - 1) : url[j] \in SchemeChars
                 THEN str_from(url, i)
                 ELSE url

\* urlparse(url).netloc: what follows "//" up to the first of "/", "?", "#"
urlparse_netloc(url) ==
    LET rest == url_after_scheme(url)
    IN  IF startswith(rest, <<"/", "/">>)
        THEN LET body == str_from(rest, 2)
                 stops == {k \in 1..Len(body) : body[k] \in {"/", "?", "#"}}
             IN  IF stops = {} THEN body
                 ELSE SubSeq(body, 1,
                             (CHOOSE k \in stops : \A j \in stops : k <= j) - 1)
        ELSE <<>>

\* d[key] = value on a dict: a key already there keeps its place
dict_set_keep_first(d, key, value) ==
    IF \E k \in 1..Len(d) : d[k].key = key THEN d
    ELSE Append(d, [key |-> key, value |-> value])

dict_set(d, key, value) ==
    IF \E k \in 1..Len(d) : d[k].key = key
    THEN [k \in 1..Len(d) |->
             IF d[k].key = key THEN [key |-> key, value |-> value] ELSE d[k]]
    ELSE Append(d, [key |-> key, value |-> value])

----------------------------------------------------------------------------
(* scripts/generate-import.py: loaders and the insert generator.           *)

extract_domain(url) ==
    LET domain == str_lower(urlparse_netloc(url))
    IN  IF startswith(domain, WwwPrefix) THEN str_from(domain, WwwLen)
        ELSE domain

escape_sql(s) == <<"'">> \o replace_quote(s) \o <<"'">>

NULL == <<"N", "U", "L", "L">>

\* update-ranks.py: the rankings loop keeps a row of at least this many columns
UrMinColumns == 2

\* load_rankings taking the rows the other script takes
GiMinColumnsAsUpdate == UrMinColumns

\* load_rankings keeps a row of at least this many columns
GiMinColumns == 6

\* load_rankings reads the author at row[5], the sixth column
AuthorColumn == 6

\* Python's truth value of main's rank: None and 0 are false
truthy(r) == r # <<>> /\ r[1] # 0

\* the for ... break scan of main over rankings.items(), from entry k on
RECURSIVE find_rank(_, _, _)
find_rank(domain, d, k) ==
    IF k > Len(d) THEN <<>>
    ELSE IF domains_match(domain, d[k].key) THEN <<d[k].value.rank>>
    ELSE find_rank(domain, d, k + 1)

BlankLine == [kind |-> "blank"]

InsertLine(name, url, domain, rank_val) ==
    [kind |-> "INSERT", name |-> escape_sql(name), url |-> escape_sql(url),
     domain |-> escape_sql(domain), rank |-> rank_val]

\* a loader that gives up a row whose rank int() refuses instead of raising
GiReadRankingLenient ==
    /\ gi_pc = "load_rankings"
    /\ gi_i <= Len(top100)
    /\ LET row == top100[gi_i]
       IN  IF Len(row) >= GiMinColumns /\ int_accepts(row[1])
           THEN rankings' =
                    dict_set(rankings, str_strip(str_lower(row[2])),
                             [rank |-> int_of(row[1]),
                              author |-> IF Len(row) > AuthorColumn - 1
                                               THEN str_strip(row[AuthorColumn])
                                               ELSE <<>>])
           ELSE rankings' = rankings
    /\ gi_i' = gi_i + 1
    /\ UNCHANGED <<gi_pc, feeds, rank, matched, unmatched, gi_stdout>>
    /\ UNCHANGED <<callVars, fileVars, urVars>>

\* load_rankings, one row of the loop: a row of 6 columns or more is parsed
\* and stored, int() raising on its rank ends the script
GiReadRanking ==
    /\ gi_pc = "load_rankings"
    /\ gi_i <= Len(top100)
    /\ LET row == top100[gi_i]
       IN  IF Len(row) >= GiMinColumns
           THEN IF int_accepts(row[1])
                THEN /\ rankings' =
                           dict_set(rankings, str_strip(str_lower(row[2])),
                                    [rank |-> int_of(row[1]),
                                     author |-> IF Len(row) > AuthorColumn - 1
                                               THEN str_strip(row[AuthorColumn])
                                               ELSE <<>>])
                     /\ gi_i' = gi_i + 1
                     /\ gi_pc' = gi_pc
                ELSE /\ gi_pc' = "aborted"
                     /\ UNCHANGED <<gi_i, rankings>>
           ELSE /\ gi_i' = gi_i + 1
                /\ UNCHANGED <<gi_pc, rankings>>
    /\ UNCHANGED <<feeds, rank, matched, unmatched, gi_stdout>>
    /\ UNCHANGED <<callVars, fileVars, urVars>>

\* load_rankings returns; load_feeds opens feeds.csv
GiRankingsLoaded ==
    /\ gi_pc = "load_rankings"
    /\ gi_i > Len(top100)
    /\ gi_pc' = "load_feeds"
    /\ gi_i' = 1
    /\ feeds' = <<>>
    /\ UNCHANGED <<rankings, rank, matched, unmatched, gi_stdout>>
    /\ UNCHANGED <<callVars, fileVars, urVars>>

\* load_feeds, one row of the loop
GiReadFeed ==
    /\ gi_pc = "load_feeds"
    /\ gi_i <= Len(feedsCsv)
    /\ LET name == str_strip(feedsCsv[gi_i].name)
           url == str_strip(feedsCsv[gi_i].url)
       IN  feeds' = IF url # <<>>
                    THEN Append(feeds, [name |-> name, url |-> url,
                                        domain |-> extract_domain(url)])
                    ELSE feeds
    /\ gi_i' = gi_i + 1
    /\ UNCHANGED <<gi_pc, rankings, rank, matched, unmatched, gi_stdout>>
    /\ UNCHANGED <<callVars, fileVars, urVars>>

\* load_feeds returns; main prints its heading and clears the counters
GiFeedsLoaded ==
    /\ gi_pc = "load_feeds"
    /\ gi_i > Len(feedsCsv)
    /\ gi_stdout' = gi_stdout \o
          << [kind |-> "loaded", rankings |-> Len(rankings),
              feeds |-> Len(feeds)],
             BlankLine, [kind |-> "heading"], BlankLine >>
    /\ matched' = 0
    /\ unmatched' = 0
    /\ gi_pc' = "main_loop"
    /\ gi_i' = 1
    /\ UNCHANGED <<rankings, feeds, rank>>
    /\ UNCHANGED <<callVars, fileVars, urVars>>

\* a generator that prints the INSERT of ranked feeds only
GiFeedRankedOnly ==
    /\ gi_pc = "main_loop"
    /\ gi_i <= Len(feeds)
    /\ LET feed == feeds[gi_i]
           found == find_rank(feed.domain, rankings, 1)
       IN  /\ rank' = found
           /\ matched' = IF truthy(found) THEN matched + 1 ELSE matched
           /\ unmatched' = IF truthy(found) THEN unmatched ELSE unmatched + 1
           /\ gi_stdout' =
                 IF truthy(found)
                 THEN Append(gi_stdout,
                             InsertLine(feed.name, feed.url, feed.domain,
                                        str_of_int(found[1])))
                 ELSE gi_stdout
    /\ gi_i' = gi_i + 1
    /\ UNCHANGED <<gi_pc, rankings, feeds>>
    /\ UNCHANGED <<callVars, fileVars, urVars>>

\* main, one feed of the loop
GiFeed ==
    /\ gi_pc = "main_loop"
    /\ gi_i <= Len(feeds)
    /\ LET feed == feeds[gi_i]
           found == find_rank(feed.domain, rankings, 1)
           rank_val == IF truthy(found) THEN str_of_int(found[1]) ELSE NULL
       IN  /\ rank' = found
           /\ matched' = IF truthy(found) THEN matched + 1 ELSE matched
           /\ unmatched' = IF truthy(found) THEN unmatched ELSE unmatched + 1
           /\ gi_stdout' =
                 Append(gi_stdout,
                        InsertLine(feed.name, feed.url, feed.domain, rank_val))
    /\ gi_i' = gi_i + 1
    /\ UNCHANGED <<gi_pc, rankings, feeds>>
    /\ UNCHANGED <<callVars, fileVars, urVars>>

\* main prints the summary and returns
GiSummary ==
    /\ gi_pc = "main_loop"
    /\ gi_i > Len(feeds)
    /\ gi_stdout' = gi_stdout \o
          << BlankLine,
             [kind |-> "summary", matched |-> matched,
              unmatched |-> unmatched] >>
    /\ gi_pc' = "done"
    /\ UNCHANGED <<gi_i, rankings, feeds, rank, matched, unmatched>>
    /\ UNCHANGED <<callVars, fileVars, urVars>>

GiEnded == gi_pc \in {"done", "aborted"}

----------------------------------------------------------------------------
(* scripts/update-ranks.py: the module body, the update generator.         *)

ur_extract_domain(url) ==
    LET domain == str_lower(urlparse_netloc(url))
    IN  IF startswith(domain, WwwPrefix) THEN str_from(domain, WwwLen)
        ELSE domain

\* the for ... break scan over rankings.items(), from entry k on
RECURSIVE ur_find_rank(_, _, _)
ur_find_rank(domain, d, k) ==
    IF k > Len(d) THEN <<>>
    ELSE IF ur_domains_match(domain, d[k].key) THEN <<d[k].value>>
    ELSE ur_find_rank(domain, d, k + 1)

\* every entry that matches, for a scan that does not stop at the first
RECURSIVE ur_find_all_ranks(_, _, _)
ur_find_all_ranks(domain, d, k) ==
    IF k > Len(d) THEN <<>>
    ELSE (IF ur_domains_match(domain, d[k].key) THEN <<d[k].value>> ELSE <<>>)
         \o ur_find_all_ranks(domain, d, k + 1)

UpdateLine(rank_val, url) ==
    [kind |-> "UPDATE", rank |-> str_of_int(rank_val),
     url |-> <<"'">> \o replace_quote(url) \o <<"'">>]

\* update-ranks.py is started on the two files once generate-import.py ended
UrStart ==
    /\ GiEnded
    /\ ur_pc = "waiting"
    /\ ur_pc' = "load_rankings"
    /\ ur_i' = 1
    /\ ur_rankings' = <<>>
    /\ UNCHANGED <<ur_matched, ur_stdout>>
    /\ UNCHANGED <<callVars, fileVars, giVars>>

\* the rankings loop, one row: a row of 2 columns or more is parsed and
\* stored, int() raising on its rank ends the script
UrReadRanking ==
    /\ ur_pc = "load_rankings"
    /\ ur_i <= Len(top100)
    /\ LET row == top100[ur_i]
       IN  IF Len(row) >= UrMinColumns
           THEN IF int_accepts(row[1])
                THEN /\ ur_rankings' =
                           dict_set(ur_rankings, str_strip(str_lower(row[2])),
                                    int_of(row[1]))
                     /\ ur_i' = ur_i + 1
                     /\ ur_pc' = ur_pc
                ELSE /\ ur_pc' = "aborted"
                     /\ UNCHANGED <<ur_i, ur_rankings>>
           ELSE /\ ur_i' = ur_i + 1
                /\ UNCHANGED <<ur_pc, ur_rankings>>
    /\ UNCHANGED <<ur_matched, ur_stdout>>
    /\ UNCHANGED <<callVars, fileVars, giVars>>

\* the rankings loop ends; matched = 0 and feeds.csv is opened
UrRankingsLoaded ==
    /\ ur_pc = "load_rankings"
    /\ ur_i > Len(top100)
    /\ ur_matched' = 0
    /\ ur_pc' = "feeds_loop"
    /\ ur_i' = 1
    /\ UNCHANGED <<ur_rankings, ur_stdout>>
    /\ UNCHANGED <<callVars, fileVars, giVars>>

\* a feed loop without the break: one UPDATE for every matching entry
UrFeedNoBreak ==
    /\ ur_pc = "feeds_loop"
    /\ ur_i <= Len(feedsCsv)
    /\ LET url == str_strip(feedsCsv[ur_i].url)
           all == IF url # <<>>
                  THEN ur_find_all_ranks(ur_extract_domain(url), ur_rankings, 1)
                  ELSE <<>>
       IN  /\ ur_stdout' =
                 ur_stdout \o [k \in 1..Len(all) |-> UpdateLine(all[k], url)]
           /\ ur_matched' = ur_matched + Len(all)
    /\ ur_i' = ur_i + 1
    /\ UNCHANGED <<ur_pc, ur_rankings>>
    /\ UNCHANGED <<callVars, fileVars, giVars>>

\* the feed loop, one row of feeds.csv
UrFeed ==
    /\ ur_pc = "feeds_loop"
    /\ ur_i <= Len(feedsCsv)
    /\ LET url == str_strip(feedsCsv[ur_i].url)
           found == IF url # <<>>
                    THEN ur_find_rank(ur_extract_domain(url), ur_rankings, 1)
                    ELSE <<>>
       IN  IF found # <<>>
           THEN /\ ur_stdout' = Append(ur_stdout, UpdateLine(found[1], url))
                /\ ur_matched' = ur_matched + 1
           ELSE UNCHANGED <<ur_stdout, ur_matched>>
    /\ ur_i' = ur_i + 1
    /\ UNCHANGED <<ur_pc, ur_rankings>>
    /\ UNCHANGED <<callVars, fileVars, giVars>>

\* the closing print
UrSummary ==
    /\ ur_pc = "feeds_loop"
    /\ ur_i > Len(feedsCsv)
    /\ ur_stdout' = Append(ur_stdout,
                           [kind |-> "summary", matched |-> ur_matched])
    /\ ur_pc' = "done"
    /\ UNCHANGED <<ur_i, ur_rankings, ur_matched>>
    /\ UNCHANGED <<callVars, fileVars, giVars>>

UrEnded == ur_pc \in {"done", "aborted"}

----------------------------------------------------------------------------
(* The two scripts run, one after the other, on the same two files: Spec.  *)

MaxRows == 2

MaxFeeds == 2

\* the rank column
RankFields == {<<"0">>, <<"2">>, <<"x">>}

\* the domain column of the rows that stop after it
PathDomain == <<"a", ".", "b", "/", "p">>

\* the domain column
RankedDomains == {<<"A", ".", "b", " ">>, PathDomain}

AuthorField == <<"J", "o">>

\* data rows: one of 1 column with a rank int() refuses, those of 2 columns
\* and those of 6 columns
Rows ==
    {<< <<"x">> >>}
        \cup {<<r, PathDomain>> : r \in RankFields}
        \cup {<<r, d, <<>>, <<>>, <<>>, AuthorField>> :
                 r \in RankFields, d \in RankedDomains}

\* the url column: a feed of a.b, a feed of c, a blank cell
Urls ==
    { <<"h", ":", "/", "/", "w", "w", "w", ".", "a", ".", "b", "/", "'", "f">>,
      <<"/", "/", "C", "/">>,
      <<" ">> }

FeedRows == {[name |-> <<"E", "x", " ">>, url |-> u] : u \in Urls}

SeqsUpTo(S, n) == UNION {[1..k -> S] : k \in 0..n}

Init ==
    /\ top100 \in SeqsUpTo(Rows, MaxRows)
    /\ feedsCsv \in SeqsUpTo(FeedRows, MaxFeeds)
    /\ arg_feed = <<>>
    /\ arg_ranked = <<>>
    /\ ret = NoCall
    /\ gi_pc = "load_rankings"
    /\ gi_i = 1
    /\ rankings = <<>>
    /\ feeds = <<>>
    /\ rank = <<>>
    /\ matched = 0
    /\ unmatched = 0
    /\ gi_stdout = <<>>
    /\ ur_pc = "waiting"
    /\ ur_i = 1
    /\ ur_rankings = <<>>
    /\ ur_matched = 0
    /\ ur_stdout = <<>>

Next ==
    \/ GiReadRanking
    \/ GiRankingsLoaded
    \/ GiReadFeed
    \/ GiFeedsLoaded
    \/ GiFeed
    \/ GiSummary
    \/ UrStart
    \/ UrReadRanking
    \/ UrRankingsLoaded
    \/ UrFeed
    \/ UrSummary

Spec == Init /\ [][Next]_vars

----------------------------------------------------------------------------
(* Properties of the matcher, under SpecMatcher.                           *)

NormalizeCalled == ret.op = "normalize_domain"

MatchCalled == ret.op = "domains_match"

\* x ends with "." followed by y
DotSuffix(x, y) == \E k \in 0..Len(x) : x = SubSeq(x, 1, k) \o <<".">> \o y

HasSlash(r) == \E k \in 1..Len(r) : r[k] = "/"

\* the part of r before its first "/"
BeforeFirstSlash(r) ==
    LET first == CHOOSE k \in 1..Len(r) :
                     r[k] = "/" /\ \A j \in 1..(k - 1) : r[j] # "/"
    IN  SubSeq(r, 1, first - 1)

LeadingWww(s) ==
    Len(s) >= 4 /\ s[1] = "w" /\ s[2] = "w" /\ s[3] = "w" /\ s[4] = "."

LeadingSpace(s) == Len(s) >= 1 /\ s[1] \in Whitespace

\* C1 as stated: domainsMatch("microsoft.com",
\* "devblogs.microsoft.com/oldnewthing") returns true.
C1_PathBaseExampleTrue ==
    (MatchCalled /\ arg_feed = microsoft_com
                 /\ arg_ranked = devblogs_oldnewthing)
        => ret.val[1] = TRUE

\* C1 amended: domainsMatch("microsoft.com",
\* "devblogs.microsoft.com/oldnewthing") returns false, since microsoft.com
\* neither equals nor lies under the base devblogs.microsoft.com; the path-base
\* rule matches the feed domain "devblogs.microsoft.com" against that entry.
C1_PathBaseExample ==
    (MatchCalled /\ arg_ranked = devblogs_oldnewthing)
        => /\ arg_feed = microsoft_com => ret.val[1] = FALSE
           /\ arg_feed = devblogs_microsoft_com => ret.val[1] = TRUE

C1_Witness ==
    /\ MatchCalled
    /\ arg_feed = microsoft_com
    /\ arg_ranked = devblogs_oldnewthing
    /\ ret.val = <<FALSE>>

\* C2 as stated: normalize(normalize(x)) = normalize(x) for every string x.
C2_NormalizeIdempotent ==
    NormalizeCalled => ret.val[2] = ret.val[1]

\* C2 amended: normalize(normalize(x)) = normalize(x) exactly when
\* normalize(x) begins neither with "www." nor with whitespace, that is
\* unless x carried a second "www." or whitespace right after its "www.".
C2_NormalizeIdempotentUnlessSecondPrefix ==
    NormalizeCalled =>
        (ret.val[2] = ret.val[1]
            <=> ~(LeadingWww(ret.val[1]) \/ LeadingSpace(ret.val[1])))

C2_Witness ==
    /\ NormalizeCalled
    /\ LeadingSpace(arg_feed)
    /\ ~LeadingWww(ret.val[1])
    /\ Len(ret.val[1]) + 4 < Len(arg_feed)
    /\ ret.val[2] = ret.val[1]

\* C4: domainsMatch(f, r) is a boolean, true exactly when, with F and R the
\* normalized f and r: F = R, or F ends with "." R, or R ends with "." F, or R
\* has a "/" and F equals, or ends with "." followed by, the part of R before
\* its first "/".  The path of F is never split off.
C4_DomainsMatchRules ==
    MatchCalled =>
        LET F == normalize_of(ret.script, arg_feed)
            R == normalize_of(ret.script, arg_ranked)
        IN  /\ ret.val[1] \in BOOLEAN
            /\ ret.val[1] <=>
                  \/ F = R
                  \/ DotSuffix(F, R)
                  \/ DotSuffix(R, F)
                  \/ /\ HasSlash(R)
                     /\ \/ F = BeforeFirstSlash(R)
                        \/ DotSuffix(F, BeforeFirstSlash(R))

\* the path rule alone decided the call, for a feed domain under the base
C4_Witness ==
    /\ MatchCalled
    /\ ret.val = <<TRUE>>
    /\ HasSlash(arg_ranked)
    /\ ~HasSlash(arg_feed)
    /\ DotSuffix(str_lower(arg_feed), BeforeFirstSlash(str_lower(arg_ranked)))
    /\ arg_feed # arg_ranked

----------------------------------------------------------------------------
(* Properties of the two generators, under Spec.                           *)

InsertLines == SelectSeq(gi_stdout, LAMBDA l : l.kind = "INSERT")

UpdateLines == SelectSeq(ur_stdout, LAMBDA l : l.kind = "UPDATE")

Min(S) == CHOOSE k \in S : \A j \in S : k <= j

Max(S) == CHOOSE k \in S : \A j \in S : k >= j

\* the text an SQL string literal denotes
RECURSIVE SqlUnescape(_)
SqlUnescape(s) ==
    IF s = <<>> THEN <<>>
    ELSE IF Len(s) >= 2 /\ s[1] = "'" /\ s[2] = "'"
         THEN <<"'">> \o SqlUnescape(SubSeq(s, 3, Len(s)))
         ELSE <<s[1]>> \o SqlUnescape(Tail(s))

SqlText(literal) == SqlUnescape(SubSeq(literal, 2, Len(literal) - 1))

\* the lower-cased, trimmed domain text of row k of the ranking table
RowKey(k) == str_strip(str_lower(top100[k][2]))

RowRank(k) == int_of(top100[k][1])

RowsOfAtLeast(n) == {k \in 1..Len(top100) : Len(top100[k]) >= n}

BadRank(k) == ~int_accepts(top100[k][1])

\* the rows of the ranking table generate-import.py has gone through
GiRowsRead ==
    IF gi_pc \in {"load_rankings", "aborted"} THEN 1..(gi_i - 1)
    ELSE 1..Len(top100)

\* the rows of the ranking table update-ranks.py has gone through
UrRowsRead ==
    IF ur_pc = "waiting" THEN {}
    ELSE IF ur_pc \in {"load_rankings", "aborted"} THEN 1..(ur_i - 1)
    ELSE 1..Len(top100)

\* generate-import.py is in, or past, its loop over feeds
GiInLoop == gi_pc \in {"main_loop", "done"}

\* update-ranks.py is in, or past, its loop over feeds
UrInLoop == ur_pc \in {"feeds_loop", "done"}

\* entries of generate-import.py's rankings that match a feed domain
GiMatching(domain) ==
    {j \in 1..Len(rankings) : domains_match(domain, rankings[j].key)}

\* entries of update-ranks.py's rankings that match a feed domain
UrMatching(domain) ==
    {j \in 1..Len(ur_rankings) : ur_domains_match(domain, ur_rankings[j].key)}

\* rows of 6 columns or more whose domain matches a feed domain
GiMatchingRows(domain) ==
    {k \in RowsOfAtLeast(6) : domains_match(domain, top100[k][2])}

\* C3 as stated: the lookup of the insert generator returns the rank of the
\* first row of the ranking table, in source order, whose domain matches the
\* feed domain, and nothing when no row matches, also with several rows of
\* the same lower-cased, trimmed domain text.
C3_FirstMatchingRow ==
    (GiInLoop /\ gi_i > 1) =>
        LET m == GiMatchingRows(feeds[gi_i - 1].domain)
        IN  rank = IF m = {} THEN <<>> ELSE <<RowRank(Min(m))>>

\* C3 amended: the lookup returns nothing when no row of 6 columns or more
\* matches; otherwise it takes the first such matching row in source order and
\* returns the rank of the LAST row of 6 columns or more that carries the same
\* lower-cased, trimmed domain text as that row (a later duplicate overwrites
\* the rank and keeps the place of the first).
C3_FirstMatchingKeyLastRank ==
    (GiInLoop /\ gi_i > 1) =>
        LET m == GiMatchingRows(feeds[gi_i - 1].domain)
        IN  rank = IF m = {} THEN <<>>
                   ELSE LET same == {k \in RowsOfAtLeast(6) :
                                        RowKey(k) = RowKey(Min(m))}
                        IN  <<RowRank(Max(same))>>

\* two rows of one domain text and different ranks, and a feed matching them
C3_Witness ==
    /\ GiInLoop /\ gi_i > 1
    /\ LET m == GiMatchingRows(feeds[gi_i - 1].domain)
       IN  /\ Cardinality(m) = 2
           /\ RowKey(Min(m)) = RowKey(Max(m))
           /\ RowRank(Min(m)) # RowRank(Max(m))
           /\ rank = <<RowRank(Max(m))>>

\* C5 as stated: the INSERT of a feed that some ranking entry matches carries
\* the first matching entry's rank, not NULL, and the feed counts as matched;
\* the INSERT of a feed no entry matches carries NULL and the feed counts as
\* unmatched; for every integer rank.
C5_InsertCarriesFirstMatchRank ==
    GiInLoop =>
        LET done == 1..(gi_i - 1)
            hit == {k \in done : GiMatching(feeds[k].domain) # {}}
        IN  /\ \A k \in done :
                  InsertLines[k].rank =
                      IF k \in hit
                      THEN str_of_int(
                               rankings[Min(GiMatching(feeds[k].domain))]
                                   .value.rank)
                      ELSE NULL
            /\ matched = Cardinality(hit)
            /\ unmatched = Cardinality(done \ hit)

\* C6 as stated: in both generators a row of fewer than 6 columns adds no
\* ranking entry: every entry comes from a row of 6 columns or more.
C6_RowsUnderSixSkipped ==
    /\ \A j \in 1..Len(rankings) :
          \E k \in RowsOfAtLeast(6) :
              RowKey(k) = rankings[j].key /\ ~BadRank(k)
                  /\ RowRank(k) = rankings[j].value.rank
    /\ \A j \in 1..Len(ur_rankings) :
          \E k \in RowsOfAtLeast(6) :
              RowKey(k) = ur_rankings[j].key /\ ~BadRank(k)
                  /\ RowRank(k) = ur_rankings[j].value

\* C6 amended: the insert generator skips the rows of fewer than 6 columns,
\* the update generator only the rows of fewer than 2 columns: the entries of
\* each are exactly the domain texts of the rows it has read that have at
\* least that many columns, each with the rank of one of those rows; a row of
\* 2 to 5 columns does add an entry to the update generator.
C6_SkippedRows ==
    /\ {rankings[j].key : j \in 1..Len(rankings)}
          = {RowKey(k) : k \in GiRowsRead \cap RowsOfAtLeast(6)}
    /\ {ur_rankings[j].key : j \in 1..Len(ur_rankings)}
          = {RowKey(k) : k \in UrRowsRead \cap RowsOfAtLeast(2)}
    /\ \A j \in 1..Len(rankings) :
          \E k \in GiRowsRead \cap RowsOfAtLeast(6) :
              RowKey(k) = rankings[j].key
                  /\ RowRank(k) = rankings[j].value.rank
    /\ \A j \in 1..Len(ur_rankings) :
          \E k \in UrRowsRead \cap RowsOfAtLeast(2) :
              RowKey(k) = ur_rankings[j].key /\ RowRank(k) = ur_rankings[j].value

\* both scripts read a table of short rows and of full rows to its end
C6_Witness ==
    /\ gi_pc = "done" /\ ur_pc = "done"
    /\ \E k \in 1..Len(top100) : Len(top100[k]) < 2
    /\ \E k \in 1..Len(top100) : Len(top100[k]) >= 6
    /\ Len(rankings) = 1
    /\ Len(ur_rankings) = 1

\* C7 as stated: a data row with a non-numeric rank field aborts the run of
\* either generator, before any INSERT or UPDATE is printed.
C7_AnyBadRankAborts ==
    (\E k \in 1..Len(top100) : BadRank(k)) =>
        /\ gi_pc \in {"load_rankings", "aborted"}
        /\ InsertLines = <<>>
        /\ ur_pc \in {"waiting", "load_rankings", "aborted"}
        /\ UpdateLines = <<>>

\* C7 amended: a data row with a non-numeric rank field and at least the
\* columns the generator requires (6 for the insert generator, 2 for the update
\* generator) aborts the run of that generator while the ranking table is being
\* loaded, before anything is printed; a shorter row is skipped without its
\* rank being parsed and aborts nothing.
C7_BadRankOfKeptRowAborts ==
    /\ (\E k \in RowsOfAtLeast(6) : BadRank(k)) =>
          (gi_pc \in {"load_rankings", "aborted"} /\ gi_stdout = <<>>)
    /\ (\E k \in RowsOfAtLeast(2) : BadRank(k)) =>
          (ur_pc \in {"waiting", "load_rankings", "aborted"}
              /\ ur_stdout = <<>>)
    /\ gi_pc = "aborted" =>
          (Len(top100[gi_i]) >= 6 /\ BadRank(gi_i))
    /\ ur_pc = "aborted" =>
          (Len(top100[ur_i]) >= 2 /\ BadRank(ur_i))
    /\ gi_pc = "done" =>
          \A k \in 1..Len(top100) : Len(top100[k]) >= 6 => ~BadRank(k)
    /\ ur_pc = "done" =>
          \A k \in 1..Len(top100) : Len(top100[k]) >= 2 => ~BadRank(k)

\* both scripts aborted on the second row, after storing the first
C7_Witness ==
    /\ gi_pc = "aborted" /\ ur_pc = "aborted"
    /\ gi_i = 2 /\ ur_i = 2
    /\ Len(rankings) = 1
    /\ \E f \in 1..Len(feedsCsv) : str_strip(feedsCsv[f].url) # <<>>

\* the UPDATE lines the rows 1..n of feeds.csv call for: rank and URL
RECURSIVE ExpectedUpdates(_)
ExpectedUpdates(n) ==
    IF n = 0 THEN <<>>
    ELSE LET url == str_strip(feedsCsv[n].url)
             m == UrMatching(ur_extract_domain(url))
         IN  ExpectedUpdates(n - 1) \o
                (IF url # <<>> /\ m # {}
                 THEN << [rank |-> str_of_int(ur_rankings[Min(m)].value),
                          url |-> url] >>
                 ELSE <<>>)

\* C8: the update generator prints, for every feed row with a non-empty URL
\* that some ranking entry matches, exactly one UPDATE, with the first matching
\* entry's rank and the feed's URL as key, and none for any other row; matched
\* is the number of UPDATE lines printed.
C8_OneUpdatePerMatchedFeed ==
    UrInLoop =>
        /\ [k \in 1..Len(UpdateLines) |->
               [rank |-> UpdateLines[k].rank,
                url |-> SqlText(UpdateLines[k].url)]]
              = ExpectedUpdates(ur_i - 1)
        /\ ur_matched = Len(UpdateLines)
        /\ ur_pc = "done" =>
              ur_stdout[Len(ur_stdout)].matched = Len(UpdateLines)

\* a feed that two entries of different ranks match, and a blank URL
C8_Witness ==
    /\ ur_pc = "done"
    /\ Len(UpdateLines) = 1
    /\ Len(ur_rankings) = 2
    /\ ur_rankings[1].value # ur_rankings[2].value
    /\ \E f \in 1..Len(feedsCsv) :
          /\ str_strip(feedsCsv[f].url) # <<>>
          /\ Cardinality(UrMatching(ur_extract_domain(
                 str_strip(feedsCsv[f].url)))) = 2
    /\ \E f \in 1..Len(feedsCsv) : str_strip(feedsCsv[f].url) = <<>>

\* C9: on the same two tables the generators agree: both end the same way,
\* a feed gets an UPDATE with rank r exactly when its INSERT carries the
\* non-NULL rank r, and the two matched counts are equal.
C9_GeneratorsAgree ==
    (GiEnded /\ UrEnded) =>
        /\ gi_pc = ur_pc
        /\ { <<SqlText(UpdateLines[k].url), UpdateLines[k].rank>> :
                 k \in 1..Len(UpdateLines) }
             = { <<SqlText(InsertLines[k].url), InsertLines[k].rank>> :
                     k \in {j \in 1..Len(InsertLines) :
                               InsertLines[j].rank # NULL} }
        /\ gi_pc = "done" => ur_matched = matched

\* C10: in the insert generator's loop matched + unmatched is the number of
\* feeds gone through and the number of INSERT lines printed, the k-th INSERT
\* being that of the k-th loaded feed; at the end it is the number of loaded
\* feeds, the rows of feeds.csv with a non-empty URL.
C10_CountersCoverFeeds ==
    GiInLoop =>
        /\ matched + unmatched = gi_i - 1
        /\ Len(InsertLines) = gi_i - 1
        /\ \A k \in 1..Len(InsertLines) :
              /\ SqlText(InsertLines[k].url) = feeds[k].url
              /\ SqlText(InsertLines[k].name) = feeds[k].name
        /\ gi_pc = "done" =>
              /\ matched + unmatched = Len(feeds)
              /\ Len(feeds) = Cardinality({f \in 1..Len(feedsCsv) :
                                  str_strip(feedsCsv[f].url) # <<>>})

\* two feeds went through the loop, one ranked and one not
C10_Witness ==
    /\ gi_pc = "done"
    /\ Len(feeds) = 2
    /\ feeds[1].url # feeds[2].url
    /\ matched = 1
    /\ unmatched = 1

====
